---- MODULE Spec2Model ----
(***************************************************************************)
(* Document Conversion Assistant (src/final-test/src/index.ts).            *)
(*                                                                         *)
(* Strings are sequences of one-character strings, so that path.extname,   *)
(* path.basename, String.toLowerCase, String.replace and RegExp.test are   *)
(* computed character by character.  File contents are sequences of        *)
(* tokens: a word, a line break, a Markdown marker or an HTML tag.         *)
(* An operator that ends in "Of", "At" or "In" is the body of the function *)
(* named before it, applied to a value that function has computed.         *)
(***************************************************************************)
EXTENDS Integers, Sequences, FiniteSets, TLC

VARIABLES
    config,     \* the configuration handed to createServer
    fsys,       \* the file system: directory -> its entries in listing order
    pc,         \* "idle", "batch" inside the loop of batch_convert, "done"
    batch,      \* the locals of the running batch_convert handler
    response,   \* the result returned by the last tool handler
    last,       \* the last readDocument / convertDocument call and what it did
    nops,       \* number of tool calls served so far
    dpath,      \* detectFormat: the argument
    dformat,    \* detectFormat: the returned tag, "pending" before the call
    cli         \* the scaffold CLI: where its main module is, and load's spinner

vars == <<config, fsys, pc, batch, response, last, nops, dpath, dformat, cli>>

(***************************************************************************)
(* The scaffold CLI: load and its spinner                                  *)
(***************************************************************************)
MaxTicks == 12          \* most spinner ticks during one load

\* loadingChars
LoadingChars == <<"|", "/", "-", "\\">>

CheckMark == "\\u2713"

\* the three load calls of the main module, in program order
LoadCalls == 1..3

StartMsg ==
    <<"Creating project from scaffold...", "Navigating to project...",
      "Installing dependencies...">>

EndMsg == <<"Project created", "Project navigated", "Dependencies installed">>

\* the commands that do I/O: copying the scaffold and running the package
\* manager take time and can reject; the second command is an empty async
\* function, resolved before any timer can fire
DoesIO == {1, 3}

\* the main module before its first load: call is the load being served,
\* phase where it is, timer whether loadingInterval is active, i the index
\* into loadingChars, ticks the spinner frames written in this call, line
\* what the terminal line shows, code the exit code (-1 while running)
NoCli ==
    [call |-> 0, phase |-> "returned", timer |-> FALSE, i |-> 0, ticks |-> 0,
     line |-> <<>>, code |-> -1]

\* load up to its await: the start line is written, the interval is set and
\* command() is called
LoadCall(n) ==
    /\ cli.phase = "returned"
    /\ cli.call = n - 1
    /\ cli' = [cli EXCEPT !.call = n, !.phase = "awaiting", !.timer = TRUE, !.i = 0,
                          !.ticks = 0, !.line = <<" ", StartMsg[n]>>]
    /\ UNCHANGED <<config, fsys, pc, batch, response, last, nops, dpath, dformat>>

\* the interval callback: it runs when the event loop reaches its timers, which
\* it does while the main module is suspended at load's await on a command
\* that does I/O
SpinnerTick ==
    /\ cli.timer
    /\ cli.phase = "awaiting"
    /\ cli.call \in DoesIO
    /\ cli.ticks < MaxTicks
    /\ cli' = [cli EXCEPT !.line = <<LoadingChars[cli.i + 1], StartMsg[cli.call]>>,
                          !.i = (cli.i + 1) % Len(LoadingChars),
                          !.ticks = @ + 1]
    /\ UNCHANGED <<config, fsys, pc, batch, response, last, nops, dpath, dformat>>

\* command() resolves: clearInterval, the end line, return result
CommandResolves ==
    /\ cli.phase = "awaiting"
    /\ cli' = [cli EXCEPT !.phase = "returned", !.timer = FALSE,
                          !.line = <<CheckMark, EndMsg[cli.call]>>]
    /\ UNCHANGED <<config, fsys, pc, batch, response, last, nops, dpath, dformat>>

\* command() rejects: the await throws and load rejects with what follows the
\* await not run
CommandRejects ==
    /\ cli.phase = "awaiting"
    /\ cli.call \in DoesIO
    /\ cli' = [cli EXCEPT !.phase = "thrown"]
    /\ UNCHANGED <<config, fsys, pc, batch, response, last, nops, dpath, dformat>>

\* the rejection of a top-level await is not handled: the process exits with
\* code 1 before the event loop reaches its timers again
UnhandledRejection ==
    /\ cli.phase = "thrown"
    /\ cli' = [cli EXCEPT !.phase = "exited", !.code = 1]
    /\ UNCHANGED <<config, fsys, pc, batch, response, last, nops, dpath, dformat>>

\* the main module ends after the last load returned
MainEnds ==
    /\ cli.phase = "returned"
    /\ cli.call = Len(StartMsg)
    /\ cli' = [cli EXCEPT !.phase = "exited", !.code = 0]
    /\ UNCHANGED <<config, fsys, pc, batch, response, last, nops, dpath, dformat>>

\* the main module at its first load; the CLI starts no server
InitLoad ==
    /\ cli = NoCli
    /\ config = [max_file_size |-> 0,
                 supported_formats |-> [input |-> {}, output |-> {}],
                 output_directory |-> <<>>]
    /\ fsys = <<>>
    /\ pc = "idle"
    /\ batch = <<>>
    /\ response = <<>>
    /\ last = <<>>
    /\ nops = 0
    /\ dpath = <<>>
    /\ dformat = "pending"

NextLoad ==
    \/ \E n \in LoadCalls : LoadCall(n)
    \/ SpinnerTick
    \/ CommandResolves
    \/ CommandRejects
    \/ UnhandledRejection
    \/ MainEnds

SpecLoad == InitLoad /\ [][NextLoad]_vars

(***************************************************************************)
(* Characters, strings and paths                                           *)
(***************************************************************************)
LowerMap ==
    [c \in {"A","B","C","D","E","F","G","H","I","J","K","L","M","N","O","P",
            "Q","R","S","T","U","V","W","X","Y","Z"} |->
        CASE c = "A" -> "a" [] c = "B" -> "b" [] c = "C" -> "c" [] c = "D" -> "d"
          [] c = "E" -> "e" [] c = "F" -> "f" [] c = "G" -> "g" [] c = "H" -> "h"
          [] c = "I" -> "i" [] c = "J" -> "j" [] c = "K" -> "k" [] c = "L" -> "l"
          [] c = "M" -> "m" [] c = "N" -> "n" [] c = "O" -> "o" [] c = "P" -> "p"
          [] c = "Q" -> "q" [] c = "R" -> "r" [] c = "S" -> "s" [] c = "T" -> "t"
          [] c = "U" -> "u" [] c = "V" -> "v" [] c = "W" -> "w" [] c = "X" -> "x"
          [] c = "Y" -> "y" [] c = "Z" -> "z"]

\* one character of String.prototype.toLowerCase
lowerChar(c) == IF c \in DOMAIN LowerMap THEN LowerMap[c] ELSE c

\* String.prototype.toLowerCase
toLowerCase(s) == [k \in 1..Len(s) |-> lowerChar(s[k])]

\* the largest index of character c in s, 0 if there is none
LastIndexOf(s, c) ==
    IF \E k \in 1..Len(s) : s[k] = c
    THEN CHOOSE k \in 1..Len(s) : s[k] = c /\ \A j \in (k+1)..Len(s) : s[j] # c
    ELSE 0

\* s without its trailing path separators (a path that is only separators is kept)
RECURSIVE StripTrailingSep(_)
StripTrailingSep(s) ==
    IF Len(s) > 1 /\ s[Len(s)] = "/" THEN StripTrailingSep(SubSeq(s, 1, Len(s) - 1))
    ELSE s

\* what follows the last separator of q
AfterLastSep(q) == SubSeq(q, LastIndexOf(q, "/") + 1, Len(q))

\* the last segment of a path
LastSegment(p) == AfterLastSep(StripTrailingSep(p))

\* the extension of segment b whose last "." is at index k (0: none): empty
\* when there is no ".", when the only "." is the first character, and for ".."
ExtAt(b, k) == IF k <= 1 \/ b = <<".", ".">> THEN <<>> ELSE SubSeq(b, k, Len(b))

\* the extension of a path segment
ExtOf(b) == ExtAt(b, LastIndexOf(b, "."))

\* path.extname
extname(p) == ExtOf(LastSegment(p))

\* segment b without ext when it ends with ext and is not ext itself
StripExt(b, ext) ==
    IF ext # <<>> /\ Len(b) > Len(ext) /\ SubSeq(b, Len(b) - Len(ext) + 1, Len(b)) = ext
    THEN SubSeq(b, 1, Len(b) - Len(ext))
    ELSE b

\* path.basename(p, ext)
basename(p, ext) == StripExt(LastSegment(p), ext)

\* path.join(dir, name)
join(dir, name) == dir \o <<"/">> \o name

\* the part of p before its separator at index k (0: none)
DirAt(p, k) == IF k = 0 THEN <<".">> ELSE SubSeq(p, 1, k - 1)

\* path.dirname
dirname(p) == DirAt(p, LastIndexOf(p, "/"))

Formats == {"pdf", "docx", "html", "md", "txt"}

\* the extension switch of detectFormat
FormatOfExt(ext) ==
    CASE ext = <<".","p","d","f">> -> "pdf"
      [] ext = <<".","d","o","c","x">> -> "docx"
      [] ext = <<".","h","t","m","l">> \/ ext = <<".","h","t","m">> -> "html"
      [] ext = <<".","m","d">> \/ ext = <<".","m","a","r","k","d","o","w","n">> -> "md"
      [] ext = <<".","t","x","t">> -> "txt"
      [] OTHER -> "unknown"

\* detectFormat with the toLowerCase call left out
detectFormat_CaseSensitive(filePath) == FormatOfExt(extname(filePath))

\* DocumentConverter.detectFormat
detectFormat(filePath) == FormatOfExt(toLowerCase(extname(filePath)))

(***************************************************************************)
(* Contents: sequences of tokens                                           *)
(***************************************************************************)
LF == "LF"      \* a line break

\* the HTML tags that occur in the contents
Tags == {"<html>", "</html>", "<body>", "</body>", "<pre>", "</pre>",
         "<p>", "</p>", "<br>", "<h1>", "</h1>", "<h2>", "</h2>",
         "<strong>", "</strong>"}

\* the lines of a text: its tokens split at every line break
RECURSIVE SplitLines(_, _, _)
SplitLines(ts, cur, acc) ==
    IF ts = <<>> THEN Append(acc, cur)
    ELSE IF Head(ts) = LF THEN SplitLines(Tail(ts), <<>>, Append(acc, cur))
    ELSE SplitLines(Tail(ts), Append(cur, Head(ts)), acc)

\* marked's inline rule for strong emphasis: a "**" opens when one more follows
\* in the line and the next "**" closes it; an unmatched "**" stays text
RECURSIVE MarkedInline(_, _)
MarkedInline(line, open) ==
    IF line = <<>> THEN <<>>
    ELSE IF Head(line) = "**" THEN
        IF open THEN <<"</strong>">> \o MarkedInline(Tail(line), FALSE)
        ELSE IF \E k \in 2..Len(line) : line[k] = "**"
             THEN <<"<strong>">> \o MarkedInline(Tail(line), TRUE)
             ELSE <<"**">> \o MarkedInline(Tail(line), FALSE)
    ELSE <<Head(line)>> \o MarkedInline(Tail(line), open)

\* what ends an open paragraph
CloseParagraph(inPara) == IF inPara THEN <<"</p>", LF>> ELSE <<>>

\* marked's block rules over the lines from index k on: an ATX heading line, a
\* blank line that ends a paragraph, a text line that opens or continues one
RECURSIVE MarkedBlocks(_, _, _)
MarkedBlocks(lines, k, inPara) ==
    IF k > Len(lines) THEN CloseParagraph(inPara)
    ELSE IF lines[k] = <<>> THEN CloseParagraph(inPara) \o MarkedBlocks(lines, k + 1, FALSE)
    ELSE IF Head(lines[k]) \in {"#", "##"} THEN
        CloseParagraph(inPara)
            \o <<IF Head(lines[k]) = "#" THEN "<h1>" ELSE "<h2>">>
            \o MarkedInline(Tail(lines[k]), FALSE)
            \o <<IF Head(lines[k]) = "#" THEN "</h1>" ELSE "</h2>", LF>>
            \o MarkedBlocks(lines, k + 1, FALSE)
    ELSE (IF inPara THEN <<LF>> ELSE <<"<p>">>)
         \o MarkedInline(lines[k], FALSE) \o MarkedBlocks(lines, k + 1, TRUE)

\* marked(content): Markdown rendered to HTML
marked(content) == MarkedBlocks(SplitLines(content, <<>>, <<>>), 1, FALSE)

\* document.body.textContent of new JSDOM(content): the text, every tag dropped
textContent(content) == SelectSeq(content, LAMBDA t : t \notin Tags)

\* Turndown's escaping of Markdown syntax in a text node
TurndownEscape(t) ==
    CASE t = "#" -> "\\#"
      [] t = "##" -> "\\##"
      [] t = "**" -> "\\*\\*"
      [] OTHER -> t

BLK == "BLK"    \* a block boundary in Turndown's output before it is joined

\* Turndown's rule for one token: headings (atx), strong, paragraphs, line
\* breaks and preformatted blocks (fenced, the fence is the token "~~~");
\* white space in running text collapses
TurndownToken(t, inPre) ==
    CASE t = "<h1>" -> <<BLK, "#">>
      [] t = "<h2>" -> <<BLK, "##">>
      [] t \in {"</h1>", "</h2>", "<p>", "</p>"} -> <<BLK>>
      [] t \in {"<strong>", "</strong>"} -> <<"**">>
      [] t = "<br>" -> <<LF>>
      [] t = "<pre>" -> <<BLK, "~~~", LF>>
      [] t = "</pre>" -> <<LF, "~~~", BLK>>
      [] t \in {"<html>", "</html>", "<body>", "</body>"} -> <<>>
      [] t = LF -> IF inPre THEN <<LF>> ELSE <<>>
      [] OTHER -> <<IF inPre THEN t ELSE TurndownEscape(t)>>

RECURSIVE TurndownRules(_, _)
TurndownRules(ts, inPre) ==
    IF ts = <<>> THEN <<>>
    ELSE TurndownToken(Head(ts), inPre)
         \o TurndownRules(Tail(ts), (inPre \/ Head(ts) = "<pre>") /\ Head(ts) # "</pre>")

\* Turndown's joining of blocks: one blank line between two blocks, none at
\* the start or the end of the output
RECURSIVE TurndownJoin(_, _, _)
TurndownJoin(ts, started, pending) ==
    IF ts = <<>> THEN <<>>
    ELSE IF Head(ts) = BLK THEN TurndownJoin(Tail(ts), started, started)
    ELSE (IF pending THEN <<LF, LF>> ELSE <<>>) \o <<Head(ts)>>
         \o TurndownJoin(Tail(ts), TRUE, FALSE)

\* TurndownService.turndown(html), headingStyle atx, codeBlockStyle fenced
turndown(html) == TurndownJoin(TurndownRules(html, FALSE), FALSE, FALSE)

InvalidByte == "\\xE9"          \* a byte that is not well-formed UTF-8 (Latin-1 e acute)
ReplacementChar == "U+FFFD"     \* the replacement character, as its UTF-8 bytes

\* the text fs.readFile(path, 'utf-8') decodes from the bytes of a file: every
\* ill-formed byte becomes U+FFFD.  A text is written back as its UTF-8 bytes,
\* token for token.
utf8Decode(data) ==
    [k \in 1..Len(data) |-> IF data[k] = InvalidByte THEN ReplacementChar ELSE data[k]]

\* String.replace(/\n/g, '<br>')
ReplaceNewlines(content) ==
    [k \in 1..Len(content) |-> IF content[k] = LF THEN "<br>" ELSE content[k]]

(***************************************************************************)
(* The file system                                                         *)
(***************************************************************************)
InDir == <<"i","n">>           \* the directory the documents are in
OutDir == <<"o","u","t">>         \* config.output_directory

FormatChars ==
    [f \in Formats |->
        CASE f = "pdf" -> <<"p","d","f">> [] f = "docx" -> <<"d","o","c","x">> [] f = "html" -> <<"h","t","m","l">>
          [] f = "md" -> <<"m","d">> [] f = "txt" -> <<"t","x","t">>]

NoPath == <<>>          \* an output_path the caller did not give

\* a directory entry: a regular file with its content, a subdirectory, or a
\* symbolic link whose target does not exist
File(name, content) == [name |-> name, kind |-> "file", content |-> content]
Directory(name) == [name |-> name, kind |-> "dir", content |-> <<>>]
DanglingLink(name) == [name |-> name, kind |-> "link", content |-> <<>>]
NoEntry == [name |-> <<>>, kind |-> "none", content |-> <<>>]

\* the index of the entry called n in a listing, 0 if there is none
IndexIn(entries, n) ==
    IF \E k \in 1..Len(entries) : entries[k].name = n
    THEN CHOOSE k \in 1..Len(entries) : entries[k].name = n
    ELSE 0

\* the entry at index k of a listing
EntryAt(entries, k) == IF k = 0 THEN NoEntry ELSE entries[k]

\* the entry called n of directory d
EntryIn(fs, d, n) == IF d \in DOMAIN fs THEN EntryAt(fs[d], IndexIn(fs[d], n)) ELSE NoEntry

\* the entry a path names
EntryOf(fs, p) == EntryIn(fs, dirname(p), LastSegment(p))

\* fs.stat on an entry: it follows links, so a missing entry and a dangling
\* link both throw
StatOf(e) ==
    IF e.kind \in {"none", "link"}
    THEN [ok |-> FALSE, error |-> "ENOENT", isFile |-> FALSE, size |-> 0]
    ELSE [ok |-> TRUE, error |-> "", isFile |-> e.kind = "file", size |-> Len(e.content)]

\* fs.stat(p)
stat(fs, p) == StatOf(EntryOf(fs, p))

\* fs.readFile on an entry
ReadFileOf(e) ==
    CASE e.kind \in {"none", "link"} -> [ok |-> FALSE, error |-> "ENOENT", data |-> <<>>]
      [] e.kind = "dir" -> [ok |-> FALSE, error |-> "EISDIR", data |-> <<>>]
      [] OTHER -> [ok |-> TRUE, error |-> "", data |-> e.content]

\* fs.readFile(p)
readFile(fs, p) == ReadFileOf(EntryOf(fs, p))

\* fs.ensureDir(dir): creates the directory when it is missing
ensureDir(fs, dir) == IF dir \in DOMAIN fs THEN fs ELSE fs @@ (dir :> <<>>)

\* fs.writeFile of entry n of the existing directory d, k its index (0: new):
\* an existing entry keeps its place in the listing, a new one is added last
WriteAt(fs, d, n, data, k) ==
    IF k # 0 /\ fs[d][k].kind = "dir" THEN [ok |-> FALSE, error |-> "EISDIR", fs |-> fs]
    ELSE [ok |-> TRUE, error |-> "",
          fs |-> [fs EXCEPT ![d] = IF k = 0 THEN Append(@, File(n, data))
                                   ELSE [@ EXCEPT ![k] = File(n, data)]]]

\* fs.writeFile of entry n of directory d, which must exist
WriteIn(fs, d, n, data) ==
    IF d \notin DOMAIN fs THEN [ok |-> FALSE, error |-> "ENOENT", fs |-> fs]
    ELSE WriteAt(fs, d, n, data, IndexIn(fs[d], n))

\* fs.writeFile(p, data)
writeFile(fs, p, data) == WriteIn(fs, dirname(p), LastSegment(p), data)

\* fs.readdir(dir): the names in listing order
readdir(fs, dir) ==
    IF dir \notin DOMAIN fs THEN [ok |-> FALSE, error |-> "ENOENT", files |-> <<>>]
    ELSE [ok |-> TRUE, error |-> "", files |-> [k \in 1..Len(fs[dir]) |-> fs[dir][k].name]]

(***************************************************************************)
(* DocumentConverter: reading                                              *)
(***************************************************************************)
PdfMagic == "%PDF"      \* first token of a well-formed PDF file
DocxMagic == "PK"       \* first token of a well-formed DOCX file

\* a failed read
ReadError(e, calls) ==
    [ok |-> FALSE, error |-> e, content |-> <<>>, format |-> "none", calls |-> calls]

\* a Document
Document(content, format, calls) ==
    [ok |-> TRUE, error |-> "", content |-> content, format |-> format, calls |-> calls]

\* DocumentConverter.readPDF on the buffer read: pdf-parse extracts the text of
\* a well-formed file
readPDF(buffer) ==
    IF ~buffer.ok THEN ReadError(buffer.error, <<"readFile">>)
    ELSE IF buffer.data = <<>> \/ Head(buffer.data) # PdfMagic
    THEN ReadError("Invalid PDF structure", <<"readFile", "pdfParse">>)
    ELSE Document(textContent(Tail(buffer.data)), "pdf", <<"readFile", "pdfParse">>)

\* DocumentConverter.readDOCX on the buffer read: mammoth extracts the raw text
\* of a well-formed file
readDOCX(buffer) ==
    IF ~buffer.ok THEN ReadError(buffer.error, <<"readFile">>)
    ELSE IF buffer.data = <<>> \/ Head(buffer.data) # DocxMagic
    THEN ReadError("Can't find end of central directory", <<"readFile", "mammoth">>)
    ELSE Document(Tail(buffer.data), "docx", <<"readFile", "mammoth">>)

\* body?.textContent || content
BodyTextOr(text, content) == IF text # <<>> THEN text ELSE content

\* DocumentConverter.readHTML on the content read
readHTML(content) ==
    IF ~content.ok THEN ReadError(content.error, <<"readFile">>)
    ELSE Document(BodyTextOr(textContent(utf8Decode(content.data)),
                             utf8Decode(content.data)), "html",
                  <<"readFile", "JSDOM">>)

\* DocumentConverter.readMarkdown on the content read
readMarkdown(content) ==
    IF ~content.ok THEN ReadError(content.error, <<"readFile">>)
    ELSE Document(utf8Decode(content.data), "md", <<"readFile">>)

\* DocumentConverter.readText on the content read
readText(content) ==
    IF ~content.ok THEN ReadError(content.error, <<"readFile">>)
    ELSE Document(utf8Decode(content.data), "txt", <<"readFile">>)

\* the format switch of readDocument, file the result of fs.readFile
ReadSwitch(format, file) ==
    CASE format = "pdf" -> readPDF(file)
      [] format = "docx" -> readDOCX(file)
      [] format = "html" -> readHTML(file)
      [] format = "md" -> readMarkdown(file)
      [] format = "txt" -> readText(file)
      [] OTHER -> ReadError("Unsupported file format", <<>>)

\* a read result with the stat call before its calls
AfterStat(r) == [r EXCEPT !.calls = <<"stat">> \o @]

\* readDocument with the size check after the format switch
ReadChecked_SizeCheckLast(cfg, stats, r) ==
    IF ~stats.ok THEN ReadError(stats.error, <<"stat">>)
    ELSE IF r.ok /\ stats.size > cfg.max_file_size
    THEN ReadError("File size exceeds maximum limit", <<"stat">> \o r.calls)
    ELSE AfterStat(r)

\* readDocument after fs.stat returned or threw; r is what the format switch
\* gives when it is reached
ReadChecked(cfg, stats, r) ==
    IF ~stats.ok THEN ReadError(stats.error, <<"stat">>)
    ELSE IF stats.size > cfg.max_file_size
    THEN ReadError("File size exceeds maximum limit", <<"stat">>)
    ELSE AfterStat(r)

\* DocumentConverter.readDocument
readDocument(fs, cfg, filePath) ==
    ReadChecked(cfg, stat(fs, filePath),
                ReadSwitch(detectFormat(filePath), readFile(fs, filePath)))

(***************************************************************************)
(* DocumentConverter: converting                                           *)
(***************************************************************************)
\* convertToHTML with a text source wrapped in a paragraph like any other
convertToHTML_TextAsParagraph(content, fromFormat) ==
    CASE fromFormat = "md" -> marked(content)
      [] fromFormat = "html" -> content
      [] OTHER ->
            <<"<html>", "<body>", "<p>">> \o ReplaceNewlines(content)
                \o <<"</p>", "</body>", "</html>">>

\* DocumentConverter.convertToHTML
convertToHTML(content, fromFormat) ==
    CASE fromFormat = "md" -> marked(content)
      [] fromFormat = "txt" ->
            <<"<html>", "<body>", "<pre>">> \o content \o <<"</pre>", "</body>", "</html>">>
      [] fromFormat = "html" -> content
      [] OTHER ->
            <<"<html>", "<body>", "<p>">> \o ReplaceNewlines(content)
                \o <<"</p>", "</body>", "</html>">>

\* convertToMarkdown with every source format passed through Turndown
convertToMarkdown_TurndownAlways(content, fromFormat) == turndown(content)

\* DocumentConverter.convertToMarkdown
convertToMarkdown(content, fromFormat) ==
    CASE fromFormat = "html" -> turndown(content)
      [] fromFormat = "md" -> content
      [] OTHER -> content

\* a failed conversion; fs is the file system it leaves
ConvertError(fs, e, calls) ==
    [ok |-> FALSE, error |-> e, path |-> NoPath, fs |-> fs, calls |-> calls]

\* the end of a conversion after fs.writeFile returned or threw (w)
Written(fs, w, outputPath, calls) ==
    IF ~w.ok THEN ConvertError(fs, w.error, calls)
    ELSE [ok |-> TRUE, error |-> "", path |-> outputPath, fs |-> w.fs, calls |-> calls]

\* await fs.writeFile(outputPath, data); return outputPath
WriteResult(fs, outputPath, data, calls) ==
    Written(fs, writeFile(fs, outputPath, data), outputPath, Append(calls, "writeFile"))

\* the content handed to generatePdf as it is, whatever the source format
PdfSource_Raw(content, fromFormat) == content

\* the HTML convertToPDF hands to generatePdf
PdfSource(content, fromFormat) ==
    IF fromFormat = "html" THEN content ELSE convertToHTML(content, fromFormat)

\* convertToPDF with the destination opened (and truncated) before rendering
convertToPDF_WriteFirst(fs, content, fromFormat, outputPath, env, calls) ==
    IF ~env.render
    THEN ConvertError(writeFile(fs, outputPath, <<>>).fs, "generatePdf failed",
                      calls \o <<"writeFile", "generatePdf">>)
    ELSE WriteResult(fs, outputPath, <<PdfMagic>> \o PdfSource(content, fromFormat),
                     Append(calls, "generatePdf"))

\* DocumentConverter.convertToPDF; env.render tells whether generatePdf succeeds
convertToPDF(fs, content, fromFormat, outputPath, env, calls) ==
    IF ~env.render
    THEN ConvertError(fs, "generatePdf failed", Append(calls, "generatePdf"))
    ELSE WriteResult(fs, outputPath, <<PdfMagic>> \o PdfSource(content, fromFormat),
                     Append(calls, "generatePdf"))

\* a default destination beside the source file
DefaultOutputPath_BesideSource(cfg, inputPath, outputFormat) ==
    join(dirname(inputPath),
         basename(inputPath, extname(inputPath)) \o <<".">> \o FormatChars[outputFormat])

\* the default destination of convertDocument
DefaultOutputPath(cfg, inputPath, outputFormat) ==
    join(cfg.output_directory,
         basename(inputPath, extname(inputPath)) \o <<".">> \o FormatChars[outputFormat])

\* outputPath || path.join(...)
FinalOutputPath(cfg, inputPath, outputFormat, outputPath) ==
    IF outputPath # NoPath THEN outputPath
    ELSE DefaultOutputPath(cfg, inputPath, outputFormat)

\* convertedContent for the targets written as text
ConvertedContent(document, outputFormat) ==
    CASE outputFormat = "html" -> convertToHTML(document.content, document.format)
      [] outputFormat = "md" -> convertToMarkdown(document.content, document.format)
      [] OTHER -> document.content

\* the switch of convertDocument with a docx case that writes the text
ConvertSwitch_DocxAsText(fs, document, outputFormat, finalOutputPath, env, calls) ==
    CASE outputFormat \in {"html", "md", "txt", "docx"} ->
            WriteResult(fs, finalOutputPath, ConvertedContent(document, outputFormat), calls)
      [] outputFormat = "pdf" ->
            convertToPDF(fs, document.content, document.format, finalOutputPath, env, calls)
      [] OTHER -> ConvertError(fs, "Conversion not implemented", calls)

\* the switch on outputFormat of convertDocument and what follows it
ConvertSwitch(fs, document, outputFormat, finalOutputPath, env, calls) ==
    CASE outputFormat \in {"html", "md", "txt"} ->
            WriteResult(fs, finalOutputPath, ConvertedContent(document, outputFormat), calls)
      [] outputFormat = "pdf" ->
            convertToPDF(fs, document.content, document.format, finalOutputPath, env, calls)
      [] OTHER -> ConvertError(fs, "Conversion not implemented", calls)

\* convertDocument with the output directory ensured before the format check
Converted_EnsureDirFirst(fs, cfg, inputPath, outputFormat, outputPath, env, document) ==
    IF ~document.ok THEN ConvertError(fs, document.error, document.calls)
    ELSE IF cfg.output_directory \notin DOMAIN fs /\ ~env.mkdir
    THEN ConvertError(fs, "EACCES", Append(document.calls, "ensureDir"))
    ELSE IF outputFormat \notin cfg.supported_formats.output
    THEN ConvertError(ensureDir(fs, cfg.output_directory), "Unsupported output format",
                      Append(document.calls, "ensureDir"))
    ELSE ConvertSwitch(ensureDir(fs, cfg.output_directory), document, outputFormat,
                       FinalOutputPath(cfg, inputPath, outputFormat, outputPath),
                       env, Append(document.calls, "ensureDir"))

\* convertDocument with the directory of the destination ensured instead of
\* the output directory
Converted_EnsureDirOfDestination(fs, cfg, inputPath, outputFormat, outputPath, env, document) ==
    IF ~document.ok THEN ConvertError(fs, document.error, document.calls)
    ELSE IF outputFormat \notin cfg.supported_formats.output
    THEN ConvertError(fs, "Unsupported output format", document.calls)
    ELSE IF cfg.output_directory \notin DOMAIN fs /\ ~env.mkdir
    THEN ConvertError(fs, "EACCES", Append(document.calls, "ensureDir"))
    ELSE ConvertSwitch(ensureDir(fs, dirname(FinalOutputPath(cfg, inputPath, outputFormat,
                                                             outputPath))),
                       document, outputFormat,
                       FinalOutputPath(cfg, inputPath, outputFormat, outputPath),
                       env, Append(document.calls, "ensureDir"))

\* convertDocument after readDocument returned or threw (document); env.mkdir
\* tells whether a missing output directory can be created
Converted(fs, cfg, inputPath, outputFormat, outputPath, env, document) ==
    IF ~document.ok THEN ConvertError(fs, document.error, document.calls)
    ELSE IF outputFormat \notin cfg.supported_formats.output
    THEN ConvertError(fs, "Unsupported output format", document.calls)
    ELSE IF cfg.output_directory \notin DOMAIN fs /\ ~env.mkdir
    THEN ConvertError(fs, "EACCES", Append(document.calls, "ensureDir"))
    ELSE ConvertSwitch(ensureDir(fs, cfg.output_directory), document, outputFormat,
                       FinalOutputPath(cfg, inputPath, outputFormat, outputPath),
                       env, Append(document.calls, "ensureDir"))

\* DocumentConverter.convertDocument
convertDocument(fs, cfg, inputPath, outputFormat, outputPath, env) ==
    Converted(fs, cfg, inputPath, outputFormat, outputPath, env,
              readDocument(fs, cfg, inputPath))

\* what the environment decides in one conversion
Envs == [mkdir : BOOLEAN, render : BOOLEAN]

\* the decisions a conversion to outputFormat can meet in file system fs
EnvsFor(fs, cfg, outputFormat) ==
    { env \in Envs : /\ (cfg.output_directory \in DOMAIN fs => env.mkdir)
                     /\ (outputFormat # "pdf" => env.render) }

(***************************************************************************)
(* batch_convert: the file_pattern filter                                  *)
(***************************************************************************)
NoPattern == <<>>       \* a file_pattern the caller did not give

\* p with ".*" in place of its "*" at index k (0: none)
ReplaceStarAt(p, k) ==
    IF k = 0 THEN p ELSE SubSeq(p, 1, k - 1) \o <<".", "*">> \o SubSeq(p, k + 1, Len(p))

\* the index of the first "*" of p, 0 if there is none
FirstStar(p) ==
    IF \E k \in 1..Len(p) : p[k] = "*"
    THEN CHOOSE k \in 1..Len(p) : p[k] = "*" /\ \A h \in 1..(k-1) : p[h] # "*"
    ELSE 0

\* file_pattern.replace('*', '.*'): only the first "*" is replaced
ReplaceFirstStar(p) == ReplaceStarAt(p, FirstStar(p))

\* whether new RegExp(re, 'i') compiles: a "*" needs an atom before it that is
\* not itself a "*", and a "[" needs its "]"
RegExpCompiles(re) ==
    /\ \A k \in 1..Len(re) : re[k] = "*" => (k > 1 /\ re[k-1] # "*")
    /\ \A k \in 1..Len(re) : re[k] = "[" => \E j \in (k+1)..Len(re) : re[j] = "]"

\* one atom of the expression against one character, flag i
AtomMatches(a, c) == a = "." \/ lowerChar(a) = lowerChar(c)

\* whether the expression matches a prefix of s; the atoms are ".", a literal
\* character, and either of them followed by "*"
RECURSIVE MatchHere(_, _)
MatchHere(re, s) ==
    IF re = <<>> THEN TRUE
    ELSE IF Len(re) >= 2 /\ re[2] = "*" THEN
        \E n \in 0..Len(s) :
            /\ \A k \in 1..n : AtomMatches(re[1], s[k])
            /\ MatchHere(SubSeq(re, 3, Len(re)), SubSeq(s, n + 1, Len(s)))
    ELSE /\ s # <<>>
         /\ AtomMatches(re[1], s[1])
         /\ MatchHere(Tail(re), Tail(s))

\* RegExp.prototype.test: without anchors a match may start anywhere
RegExpTest(re, s) == \E k \in 1..(Len(s) + 1) : MatchHere(re, SubSeq(s, k, Len(s)))

\* the filter of batch_convert on one file name: "throw" when the RegExp
\* constructor throws, else "match" or "skip"
PatternFilterOf(re, file) ==
    IF ~RegExpCompiles(re) THEN "throw"
    ELSE IF RegExpTest(re, file) THEN "match" ELSE "skip"

PatternFilter(file_pattern, file) ==
    IF file_pattern = NoPattern THEN "match"
    ELSE PatternFilterOf(ReplaceFirstStar(file_pattern), file)

(***************************************************************************)
(* The documents and the configurations                                    *)
(***************************************************************************)
ModelMaxFileSize == 10  \* config.max_file_size, in tokens
MaxFiles == 2           \* most entries of the input directory

\* a content of n tokens
Filler(n) == [k \in 1..n |-> "x"]

\* the entries the batch directories are made of
BatchCatalogue ==
    { File(<<"n","o","t","e","s",".","m","d">>, <<"#", "Title", LF, "**", "bold", "**">>),
      File(<<"R","E","A","D","M","E",".","m","d">>, <<"##", "Usage", LF, "text">>),
      File(<<"n","o","t","e","s",".","t","x","t">>, <<"Hello", LF, "World">>),
      File(<<"p","a","g","e",".","h","t","m","l">>, <<"<h1>", "Title", "</h1>">>),
      File(<<"b","a","d",".","p","d","f">>, <<"junk">>),
      File(<<"b","i","g",".","t","x","t">>, Filler(ModelMaxFileSize + 1)),
      File(<<"n","o","t","e","s",".","m","d",".","t","x","t">>, <<"draft">>),
      File(<<"c","m","d">>, <<"echo">>),
      Directory(<<"s","u","b",".","m","d">>),
      DanglingLink(<<"g","o","n","e",".","m","d">>) }

\* the entries a single document is drawn from
Catalogue ==
    { File(<<"n","o","t","e","s",".","m","d">>, <<"#", "Title", LF, "**", "bold", "**">>),
      File(<<"R","E","A","D","M","E",".","m","d">>, <<"##", "Usage", LF, "text">>),
      File(<<"n","o","t","e","s",".","t","x","t">>, <<"Hello", LF, "World">>),
      File(<<"p","a","g","e",".","h","t","m","l">>, <<"<h1>", "Title", "</h1>">>),
      File(<<"l","a","t","i","n",".","m","d">>, <<"#", "Caf", InvalidByte>>),
      File(<<"d","o","c",".","p","d","f">>, <<PdfMagic, "Report", LF, "text">>),
      File(<<"b","a","d",".","p","d","f">>, <<"junk">>),
      File(<<"w",".","d","o","c","x">>, <<DocxMagic, "Letter">>),
      File(<<"f","u","l","l",".","t","x","t">>, Filler(ModelMaxFileSize)),
      File(<<"b","i","g",".","t","x","t">>, Filler(ModelMaxFileSize + 1)),
      File(<<"b","i","g",".","b","i","n">>, Filler(ModelMaxFileSize + 1)),
      File(<<"c","m","d">>, <<"echo">>),
      Directory(<<"s","u","b",".","m","d">>),
      DanglingLink(<<"g","o","n","e",".","m","d">>) }

DefaultConfig ==
    [max_file_size |-> ModelMaxFileSize,
     supported_formats |-> [input |-> Formats, output |-> Formats],
     output_directory |-> OutDir]

RestrictedInput == [DefaultConfig EXCEPT !.supported_formats.input = {"md", "html"}]
RestrictedOutput == [DefaultConfig EXCEPT !.supported_formats.output = {"html", "md", "txt"}]

Configs == { DefaultConfig, RestrictedInput, RestrictedOutput }

\* the directories of at most MaxFiles entries, in every listing order
Listings ==
    UNION { { l \in [1..n -> BatchCatalogue] : \A j, k \in 1..n : j # k => l[j].name # l[k].name }
            : n \in 0..MaxFiles }

NoBatch ==
    [input_directory |-> <<>>, output_format |-> "", file_pattern |-> NoPattern,
     files |-> <<>>, i |-> 0, results |-> <<>>, errors |-> <<>>, attempts |-> <<>>,
     inflight |-> {}]

NoResponse ==
    [tool |-> "", kind |-> "none", error |-> "", path |-> NoPath,
     succeeded |-> 0, failed |-> 0, lines |-> <<>>, info |-> <<>>]

NoCall ==
    [op |-> "", input |-> <<>>, output_format |-> "", output_path |-> NoPath,
     ok |-> FALSE, error |-> "", path |-> NoPath, calls |-> <<>>,
     format |-> "none", content |-> <<>>, before |-> <<>>]

(***************************************************************************)
(* The tools convert_document and get_document_info                        *)
(***************************************************************************)
MaxOps == 2             \* most tool calls in one behaviour

MissingPath == join(InDir, <<"n","o","n","e",".","m","d">>)
CopyPath == join(InDir, <<"c","o","p","y",".","h","t","m","l">>)

\* the paths a caller passes as input_path or file_path
InputPaths(fs) ==
    UNION { { join(d, fs[d][k].name) : k \in 1..Len(fs[d]) } : d \in DOMAIN fs }
        \cup {MissingPath}

\* the convert_document handler, r what convertDocument returned or threw and
\* document what its readDocument call gave
ConvertDocumentReturn(input_path, output_format, output_path, r, document) ==
    /\ fsys' = r.fs
    /\ response' = [NoResponse EXCEPT !.tool = "convert_document",
                                      !.kind = IF r.ok THEN "ok" ELSE "error",
                                      !.error = r.error,
                                      !.path = r.path]
    /\ last' = [op |-> "convertDocument", input |-> input_path,
                output_format |-> output_format, output_path |-> output_path,
                ok |-> r.ok, error |-> r.error, path |-> r.path, calls |-> r.calls,
                format |-> document.format, content |-> document.content,
                before |-> fsys]

\* the convert_document tool
ConvertDocumentTool(input_path, output_format, output_path, env) ==
    /\ pc = "idle"
    /\ nops < MaxOps
    /\ ConvertDocumentReturn(input_path, output_format, output_path,
            convertDocument(fsys, config, input_path, output_format, output_path, env),
            readDocument(fsys, config, input_path))
    /\ nops' = nops + 1
    /\ UNCHANGED <<config, pc, batch, dpath, dformat, cli>>

\* the get_document_info handler, document what readDocument returned or threw:
\* the info is the format, the size and the content_length
GetDocumentInfoReturn(file_path, document, stats) ==
    /\ response' = [NoResponse EXCEPT !.tool = "get_document_info",
                                      !.kind = IF document.ok THEN "ok" ELSE "error",
                                      !.error = document.error,
                                      !.info = IF document.ok
                                               THEN <<document.format, stats.size,
                                                      Len(document.content)>>
                                               ELSE <<>>]
    /\ last' = [NoCall EXCEPT !.op = "readDocument", !.input = file_path,
                              !.ok = document.ok, !.error = document.error,
                              !.calls = document.calls, !.format = document.format,
                              !.content = document.content, !.before = fsys]

\* a get_document_info tool that makes sure the output directory exists
GetDocumentInfoTool_EnsureDir(file_path) ==
    /\ pc = "idle"
    /\ nops < MaxOps
    /\ GetDocumentInfoReturn(file_path, readDocument(fsys, config, file_path),
                             stat(fsys, file_path))
    /\ fsys' = ensureDir(fsys, config.output_directory)
    /\ nops' = nops + 1
    /\ UNCHANGED <<config, pc, batch, dpath, dformat, cli>>

\* the get_document_info tool
GetDocumentInfoTool(file_path) ==
    /\ pc = "idle"
    /\ nops < MaxOps
    /\ GetDocumentInfoReturn(file_path, readDocument(fsys, config, file_path),
                             stat(fsys, file_path))
    /\ nops' = nops + 1
    /\ UNCHANGED <<config, fsys, pc, batch, dpath, dformat, cli>>

Init ==
    /\ config \in Configs
    /\ fsys \in { (InDir :> <<e>>) : e \in Catalogue }
    /\ pc = "idle"
    /\ batch = NoBatch
    /\ response = NoResponse
    /\ last = NoCall
    /\ nops = 0
    /\ dpath = <<>>
    /\ dformat = "pending"
    /\ cli = NoCli

Next ==
    \/ \E p \in InputPaths(fsys), f \in Formats, o \in {NoPath, CopyPath} :
          \E env \in EnvsFor(fsys, config, f) : ConvertDocumentTool(p, f, o, env)
    \/ \E p \in InputPaths(fsys) : GetDocumentInfoTool(p)

Spec == Init /\ [][Next]_vars

(***************************************************************************)
(* The tool batch_convert                                                  *)
(***************************************************************************)
\* the file_pattern arguments
Patterns == { NoPattern, <<"*",".","m","d">>, <<"*",".","T","X","T">>, <<"[">> }

\* a line of the report
OkLine(file, result) == [mark |-> "ok", file |-> file, dest |-> basename(result, <<>>), note |-> ""]
FailLine(file, message) == [mark |-> "fail", file |-> file, dest |-> <<>>, note |-> message]
TextLine(text) == [mark |-> "text", file |-> <<>>, dest |-> <<>>, note |-> text]

\* the summary with the failures listed before the successes
Summary_ErrorsFirst(results, errors) ==
    <<TextLine("Batch Conversion Results:"), TextLine("Successfully converted:"),
      TextLine("Failed:"), TextLine(""), TextLine("Failed conversions:")>>
    \o errors \o <<TextLine(""), TextLine("Successful conversions:")>> \o results

\* the summary of batch_convert
Summary(results, errors) ==
    <<TextLine("Batch Conversion Results:"), TextLine("Successfully converted:"),
      TextLine("Failed:"), TextLine(""), TextLine("Successful conversions:")>>
    \o results \o <<TextLine(""), TextLine("Failed conversions:")>> \o errors

\* the result of the outer catch of batch_convert
BatchFailed(message) ==
    [NoResponse EXCEPT !.tool = "batch_convert", !.kind = "failed", !.error = message]

\* the result batch_convert returns after its loop
BatchReport(results, errors) ==
    [NoResponse EXCEPT !.tool = "batch_convert", !.kind = "report",
                       !.succeeded = Len(results), !.failed = Len(errors),
                       !.lines = Summary(results, errors)]

\* batch_convert up to its loop, listing what fs.readdir returned or threw
BatchStartReturn(input_directory, output_format, file_pattern, listing) ==
    IF ~listing.ok
    THEN /\ response' = BatchFailed(listing.error)
         /\ pc' = "done"
         /\ batch' = [NoBatch EXCEPT !.input_directory = input_directory,
                                     !.output_format = output_format,
                                     !.file_pattern = file_pattern]
    ELSE /\ response' = response
         /\ pc' = "batch"
         /\ batch' = [NoBatch EXCEPT !.input_directory = input_directory,
                                     !.output_format = output_format,
                                     !.file_pattern = file_pattern,
                                     !.files = listing.files,
                                     !.i = 1]

BatchStart(input_directory, output_format, file_pattern) ==
    /\ pc = "idle"
    /\ BatchStartReturn(input_directory, output_format, file_pattern,
                        readdir(fsys, input_directory))
    /\ nops' = nops + 1
    /\ UNCHANGED <<config, fsys, last, dpath, dformat, cli>>

\* the try/catch around convertDocument in the loop, with abort on first failure
BatchConverted_AbortOnFailure(file, filePath, r, document) ==
    /\ fsys' = r.fs
    /\ last' = [op |-> "convertDocument", input |-> filePath,
                output_format |-> batch.output_format, output_path |-> NoPath,
                ok |-> r.ok, error |-> r.error, path |-> r.path, calls |-> r.calls,
                format |-> document.format, content |-> document.content,
                before |-> fsys]
    /\ batch' = [batch EXCEPT
                    !.i = IF r.ok THEN @ + 1 ELSE Len(batch.files) + 1,
                    !.results = IF r.ok THEN Append(@, OkLine(file, r.path)) ELSE @,
                    !.errors = IF r.ok THEN @ ELSE Append(@, FailLine(file, r.error)),
                    !.attempts = Append(@, [file |-> file, ok |-> r.ok, path |-> r.path]),
                    !.inflight = @ \ {file}]
    /\ UNCHANGED <<pc, response>>

\* the try/catch around convertDocument in the loop, with the directory listed
\* again after each conversion
BatchConverted_Relist(file, filePath, r, document) ==
    /\ fsys' = r.fs
    /\ last' = [op |-> "convertDocument", input |-> filePath,
                output_format |-> batch.output_format, output_path |-> NoPath,
                ok |-> r.ok, error |-> r.error, path |-> r.path, calls |-> r.calls,
                format |-> document.format, content |-> document.content,
                before |-> fsys]
    /\ batch' = [batch EXCEPT
                    !.i = @ + 1,
                    !.files = readdir(r.fs, batch.input_directory).files,
                    !.results = IF r.ok THEN Append(@, OkLine(file, r.path)) ELSE @,
                    !.errors = IF r.ok THEN @ ELSE Append(@, FailLine(file, r.error)),
                    !.attempts = Append(@, [file |-> file, ok |-> r.ok, path |-> r.path]),
                    !.inflight = @ \ {file}]
    /\ UNCHANGED <<pc, response>>

\* the try/catch around convertDocument in the loop: r is what convertDocument
\* returned or threw, document what its readDocument call gave
BatchConverted(file, filePath, r, document) ==
    /\ fsys' = r.fs
    /\ last' = [op |-> "convertDocument", input |-> filePath,
                output_format |-> batch.output_format, output_path |-> NoPath,
                ok |-> r.ok, error |-> r.error, path |-> r.path, calls |-> r.calls,
                format |-> document.format, content |-> document.content,
                before |-> fsys]
    /\ batch' = [batch EXCEPT
                    !.i = @ + 1,
                    !.results = IF r.ok THEN Append(@, OkLine(file, r.path)) ELSE @,
                    !.errors = IF r.ok THEN @ ELSE Append(@, FailLine(file, r.error)),
                    !.attempts = Append(@, [file |-> file, ok |-> r.ok, path |-> r.path]),
                    !.inflight = @ \ {file}]
    /\ UNCHANGED <<pc, response>>

\* continue: on to the next file
BatchContinue ==
    /\ batch' = [batch EXCEPT !.i = @ + 1]
    /\ UNCHANGED <<fsys, last, pc, response>>

\* an exception in the loop that no catch handles: the handler rejects
BatchThrow_Escapes(message) ==
    /\ response' = [NoResponse EXCEPT !.tool = "batch_convert", !.kind = "thrown",
                                      !.error = message]
    /\ pc' = "done"
    /\ UNCHANGED <<fsys, last, batch>>

\* an exception that reaches the outer catch
BatchThrow(message) ==
    /\ response' = BatchFailed(message)
    /\ pc' = "done"
    /\ UNCHANGED <<fsys, last, batch>>

\* one iteration of the loop without the isFile test
BatchIteration_NoFileCheck(file, filePath, stats, filter, env) ==
    IF ~stats.ok THEN BatchThrow(stats.error)
    ELSE IF filter = "throw" THEN BatchThrow("Invalid regular expression")
    ELSE IF filter = "skip" THEN BatchContinue
    ELSE BatchConverted(file, filePath,
            convertDocument(fsys, config, filePath, batch.output_format, NoPath, env),
            readDocument(fsys, config, filePath))

\* one iteration of the loop on file, stats what fs.stat returned or threw and
\* filter what the pattern filter does when it is reached
BatchIteration(file, filePath, stats, filter, env) ==
    IF ~stats.ok THEN BatchThrow(stats.error)
    ELSE IF ~stats.isFile THEN BatchContinue
    ELSE IF filter = "throw" THEN BatchThrow("Invalid regular expression")
    ELSE IF filter = "skip" THEN BatchContinue
    ELSE BatchConverted(file, filePath,
            convertDocument(fsys, config, filePath, batch.output_format, NoPath, env),
            readDocument(fsys, config, filePath))

\* one iteration of the for loop of batch_convert
BatchStep(env) ==
    /\ pc = "batch"
    /\ batch.i <= Len(batch.files)
    /\ BatchIteration(batch.files[batch.i],
                      join(batch.input_directory, batch.files[batch.i]),
                      stat(fsys, join(batch.input_directory, batch.files[batch.i])),
                      PatternFilter(batch.file_pattern, batch.files[batch.i]),
                      env)
    /\ UNCHANGED <<config, nops, dpath, dformat, cli>>

\* the end of batch_convert: the summary is built and returned
BatchFinish ==
    /\ pc = "batch"
    /\ batch.i > Len(batch.files)
    /\ response' = BatchReport(batch.results, batch.errors)
    /\ pc' = "done"
    /\ UNCHANGED <<config, fsys, batch, last, nops, dpath, dformat, cli>>

InitBatch ==
    /\ config \in {DefaultConfig, RestrictedOutput}
    /\ fsys \in { (InDir :> l) : l \in Listings }
    /\ pc = "idle"
    /\ batch = NoBatch
    /\ response = NoResponse
    /\ last = NoCall
    /\ nops = 0
    /\ dpath = <<>>
    /\ dformat = "pending"
    /\ cli = NoCli

NextBatch ==
    \/ \E d \in {InDir, OutDir}, f \in Formats, p \in Patterns : BatchStart(d, f, p)
    \/ \E env \in EnvsFor(fsys, config, batch.output_format) : BatchStep(env)
    \/ BatchFinish

SpecBatch == InitBatch /\ [][NextBatch]_vars

(***************************************************************************)
(* batch_convert with the outputs written into the input directory         *)
(***************************************************************************)
\* a configuration whose output_directory is the directory of the documents
InPlaceConfig == [DefaultConfig EXCEPT !.output_directory = InDir]

InitInPlace ==
    /\ config = InPlaceConfig
    /\ fsys \in { (InDir :> l) : l \in Listings }
    /\ pc = "idle"
    /\ batch = NoBatch
    /\ response = NoResponse
    /\ last = NoCall
    /\ nops = 0
    /\ dpath = <<>>
    /\ dformat = "pending"
    /\ cli = NoCli

SpecInPlace == InitInPlace /\ [][NextBatch]_vars

(***************************************************************************)
(* batch_convert, step by step at its awaits                               *)
(***************************************************************************)
\* the call converter.convertDocument(filePath, output_format) is made: its
\* promise is pending
WorkerCall(file) ==
    /\ batch' = [batch EXCEPT !.inflight = @ \cup {file}]
    /\ UNCHANGED <<fsys, last, pc, response>>

\* one iteration of the loop up to the call of convertDocument
WorkerIteration(file, stats, filter) ==
    IF ~stats.ok THEN BatchThrow(stats.error)
    ELSE IF ~stats.isFile THEN BatchContinue
    ELSE IF filter = "throw" THEN BatchThrow("Invalid regular expression")
    ELSE IF filter = "skip" THEN BatchContinue
    ELSE WorkerCall(file)

\* the loop going on to the file after the pending ones without awaiting them
WorkerBegin_NoAwait ==
    /\ pc = "batch"
    /\ batch.i + Cardinality(batch.inflight) <= Len(batch.files)
    /\ WorkerIteration(batch.files[batch.i + Cardinality(batch.inflight)],
                       stat(fsys, join(batch.input_directory,
                                       batch.files[batch.i + Cardinality(batch.inflight)])),
                       PatternFilter(batch.file_pattern,
                                     batch.files[batch.i + Cardinality(batch.inflight)]))
    /\ UNCHANGED <<config, nops, dpath, dformat, cli>>

\* the loop takes up its next file: the body is suspended at its await while
\* a convertDocument promise is pending
WorkerBegin ==
    /\ pc = "batch"
    /\ batch.i <= Len(batch.files)
    /\ batch.inflight = {}
    /\ WorkerIteration(batch.files[batch.i],
                       stat(fsys, join(batch.input_directory, batch.files[batch.i])),
                       PatternFilter(batch.file_pattern, batch.files[batch.i]))
    /\ UNCHANGED <<config, nops, dpath, dformat, cli>>

\* a pending convertDocument promise settles and its outcome is recorded
WorkerSettle(env) ==
    /\ pc = "batch"
    /\ \E file \in batch.inflight :
          BatchConverted(file, join(batch.input_directory, file),
              convertDocument(fsys, config, join(batch.input_directory, file),
                              batch.output_format, NoPath, env),
              readDocument(fsys, config, join(batch.input_directory, file)))
    /\ UNCHANGED <<config, nops, dpath, dformat, cli>>

\* the summary is returned when the loop is over
WorkerFinish == batch.inflight = {} /\ BatchFinish

NextWorker ==
    \/ \E f \in Formats, p \in {NoPattern, <<"*",".","m","d">>} : BatchStart(InDir, f, p)
    \/ WorkerBegin
    \/ \E env \in EnvsFor(fsys, config, batch.output_format) : WorkerSettle(env)
    \/ WorkerFinish

SpecWorker == InitBatch /\ [][NextWorker]_vars

(***************************************************************************)
(* detectFormat on its own                                                 *)
(***************************************************************************)
Stems == { <<>>, <<"a">>, <<"i","n","/","n","o","t","e","s">>, <<"i","n","/">>, <<"d",".","m","d","/","x">>, <<"a",".","b">>, <<".">> }

Extensions ==
    { <<>>, <<".">>, <<".","p","d","f">>, <<".","P","D","F">>, <<".","P","d","f">>, <<".","d","o","c","x">>, <<".","D","O","C","X">>, <<".","h","t","m","l">>, <<".","H","T","M","L">>, <<".","h","t","m">>,
      <<".","H","T","M">>, <<".","m","d">>, <<".","M","D">>, <<".","m","D">>, <<".","m","a","r","k","d","o","w","n">>, <<".","M","A","R","K","D","O","W","N">>, <<".","t","x","t">>, <<".","T","X","T">>, <<".","d","o","c">>,
      <<".","m","d","x">>, <<".","t","e","x","t">>, <<"m","d">>, <<"p","d","f">>, <<".","m","d",".","b","a","k">>, <<".","t","x","t","/">>, <<".","p","d","f",".","t","x","t">> }

\* the paths detectFormat is applied to
DetectPaths == { s \o e : s \in Stems, e \in Extensions }

\* a call of detectFormat
DetectFormat ==
    /\ dformat = "pending"
    /\ dformat' = detectFormat(dpath)
    /\ UNCHANGED <<config, fsys, pc, batch, response, last, nops, dpath, cli>>

InitDetect ==
    /\ config = DefaultConfig
    /\ fsys \in { (InDir :> l) : l \in {<<>>} }
    /\ pc = "idle"
    /\ batch = NoBatch
    /\ response = NoResponse
    /\ last = NoCall
    /\ nops = 0
    /\ dpath \in DetectPaths
    /\ dformat = "pending"
    /\ cli = NoCli

NextDetect == DetectFormat

SpecDetect == InitDetect /\ [][NextDetect]_vars

(***************************************************************************)
(* The three tools of one server                                           *)
(***************************************************************************)
\* no tool call has been served yet
FirstCall == nops = 0

\* the server of createServer with convert_document, get_document_info and
\* batch_convert registered, serving its first call; a batch_convert call runs
\* to its return
NextTools ==
    \/ FirstCall /\ Next
    \/ \E d \in {InDir, OutDir}, f \in Formats, p \in Patterns :
          FirstCall /\ BatchStart(d, f, p)
    \/ \E env \in EnvsFor(fsys, config, batch.output_format) : BatchStep(env)
    \/ BatchFinish

SpecTools == Init /\ [][NextTools]_vars

(***************************************************************************)
(* convert_document with an output path in a directory that does not exist *)
(***************************************************************************)
NewDir == <<"n","e","w">>         \* a directory that does not exist
NewPath == join(NewDir, <<"c","o","p","y",".","h","t","m","l">>)

\* the output directory exists already (an earlier conversion made it, with
\* its output in it) or not yet
InitConvert ==
    /\ config \in {DefaultConfig, RestrictedOutput}
    /\ fsys \in { (InDir :> <<e>>) : e \in Catalogue }
               \cup { (InDir :> <<e>>) @@ (OutDir :> <<File(<<"o","l","d",".","t","x","t">>, <<"old">>)>>)
                      : e \in Catalogue }
    /\ pc = "idle"
    /\ batch = NoBatch
    /\ response = NoResponse
    /\ last = NoCall
    /\ nops = 0
    /\ dpath = <<>>
    /\ dformat = "pending"
    /\ cli = NoCli

\* one convert_document call, with or without an output_path
NextConvert ==
    \E p \in InputPaths(fsys), f \in Formats, o \in {NoPath, CopyPath, NewPath} :
        \E env \in EnvsFor(fsys, config, f) :
            FirstCall /\ ConvertDocumentTool(p, f, o, env)

SpecConvert == InitConvert /\ [][NextConvert]_vars

(***************************************************************************)
(* Claims about batch_convert, under SpecBatch                             *)
(***************************************************************************)
\* the entries of the input directory when it was listed (the loop writes
\* only into the output directory)
ListedEntry(k) == EntryIn(fsys, batch.input_directory, batch.files[k])

\* file k of the listing is a regular file that passes the filter
Matched(k) ==
    /\ ListedEntry(k).kind = "file"
    /\ PatternFilter(batch.file_pattern, batch.files[k]) = "match"

\* the batch has returned its report
Reported == pc = "done" /\ response.kind = "report"

\* a regular file the reader accepts: known format, within the size limit,
\* and well-formed when it is a PDF or DOCX file
Readable(e) ==
    /\ e.kind = "file"
    /\ Len(e.content) <= config.max_file_size
    /\ detectFormat(e.name) # "unknown"
    /\ detectFormat(e.name) = "pdf" => (e.content # <<>> /\ Head(e.content) = PdfMagic)
    /\ detectFormat(e.name) = "docx" => (e.content # <<>> /\ Head(e.content) = DocxMagic)

\* a file that converts to the batch's output format: readable, and the
\* format is one of the implemented, configured targets
Convertible(e) ==
    /\ Readable(e)
    /\ batch.output_format \in config.supported_formats.output
    /\ batch.output_format # "docx"

\* no conversion of the batch failed in the environment (directory creation,
\* PDF rendering)
NoEnvironmentFailure ==
    \A k \in 1..Len(batch.errors) :
        batch.errors[k].note \notin {"EACCES", "generatePdf failed"}

\* the number of listed files that do not convert
FailingFiles == Cardinality({ k \in 1..Len(batch.files) : ~Convertible(ListedEntry(k)) })

\* the position of file's outcome line in the report, 0 if it has none
LinePosition(file) ==
    IF \E k \in 1..Len(response.lines) :
            response.lines[k].mark # "text" /\ response.lines[k].file = file
    THEN CHOOSE k \in 1..Len(response.lines) :
            response.lines[k].mark # "text" /\ response.lines[k].file = file
    ELSE 0

\* the mark of file's outcome line
LineMark(file) == response.lines[LinePosition(file)].mark

\* C1: over a directory of N matched regular files the report has N outcome
\* lines, one per file; it counts as failures exactly the K files whose
\* conversion threw and marks each file by how its conversion ended; these K
\* files are the ones that do not convert when no conversion failed in the
\* environment, and then it counts N-K successes and K failures and every
\* file that converts has a success line and its output file, wherever the
\* failing files are in the listing.
C1_BatchCountsAndNoAbort ==
    (Reported /\ \A k \in 1..Len(batch.files) : Matched(k)) =>
        /\ response.succeeded + response.failed = Len(batch.files)
        /\ \A k \in 1..Len(batch.files) : LinePosition(batch.files[k]) # 0
        /\ response.failed = Cardinality({ a \in 1..Len(batch.attempts) : ~batch.attempts[a].ok })
        /\ \A a \in 1..Len(batch.attempts) :
              LineMark(batch.attempts[a].file) = (IF batch.attempts[a].ok THEN "ok" ELSE "fail")
        /\ NoEnvironmentFailure =>
              /\ response.failed = FailingFiles
              /\ response.succeeded = Len(batch.files) - FailingFiles
              /\ \A k \in 1..Len(batch.files) :
                    Convertible(ListedEntry(k)) =>
                        /\ LineMark(batch.files[k]) = "ok"
                        /\ EntryOf(fsys, DefaultOutputPath(config,
                                    join(batch.input_directory, batch.files[k]),
                                    batch.output_format)).kind = "file"

\* C1 witness: a report over two matched regular files of which the first
\* failed and the second was converted
C1_Witness ==
    /\ Reported
    /\ Len(batch.files) = 2
    /\ \A k \in 1..Len(batch.files) : Matched(k)
    /\ NoEnvironmentFailure
    /\ ~Convertible(ListedEntry(1))
    /\ Convertible(ListedEntry(2))
    /\ LineMark(batch.files[2]) = "ok"
    /\ response.failed = 1

\* the listing succeeded and the handler has returned
ListedAndReturned == pc = "done" /\ batch.i >= 1

\* C2 (as claimed): once the listing has succeeded the handler returns the
\* report, with success count + failure count = number of matched files,
\* whatever the entries and the file_pattern are.
C2_AlwaysReports ==
    ListedAndReturned =>
        /\ response.kind = "report"
        /\ response.succeeded + response.failed =
              Cardinality({ k \in 1..Len(batch.files) : Matched(k) })

\* glob matching: "*" matches any substring, every other character matches
\* itself without regard to case, and the whole name is matched
RECURSIVE GlobMatch(_, _)
GlobMatch(pattern, name) ==
    IF pattern = <<>> THEN name = <<>>
    ELSE IF Head(pattern) = "*"
    THEN \E n \in 0..Len(name) : GlobMatch(Tail(pattern), SubSeq(name, n + 1, Len(name)))
    ELSE /\ name # <<>>
         /\ lowerChar(Head(pattern)) = lowerChar(Head(name))
         /\ GlobMatch(Tail(pattern), Tail(name))

\* file k of the listing was handed to convertDocument
Processed(k) ==
    \E a \in 1..Len(batch.attempts) : batch.attempts[a].file = batch.files[k]

\* C8 (as claimed): with a file_pattern, a regular file is processed if and
\* only if its name matches the pattern as a glob.
C8_PatternIsGlob ==
    \A k \in 1..Len(batch.files) :
        (/\ k < batch.i
         /\ batch.file_pattern # NoPattern
         /\ ListedEntry(k).kind = "file")
        => (Processed(k) <=> GlobMatch(batch.file_pattern, batch.files[k]))

\* C9 (as claimed): the outcome lines are in listing order, whatever the
\* outcomes: a listed before b has its line before b's.
C9_ListingOrder ==
    Reported =>
        \A a, b \in 1..Len(batch.files) :
            (a < b /\ LinePosition(batch.files[a]) # 0 /\ LinePosition(batch.files[b]) # 0)
            => LinePosition(batch.files[a]) < LinePosition(batch.files[b])

\* C9 (amended): the report lists the successes in listing order and then the
\* failures in listing order: for a listed before b, a's line is before b's
\* unless a failed and b succeeded, and then b's line is before a's.
C9_OrderWithinOutcome ==
    Reported =>
        \A a, b \in 1..Len(batch.files) :
            (a < b /\ LinePosition(batch.files[a]) # 0 /\ LinePosition(batch.files[b]) # 0)
            => IF LineMark(batch.files[a]) = "fail" /\ LineMark(batch.files[b]) = "ok"
               THEN LinePosition(batch.files[b]) < LinePosition(batch.files[a])
               ELSE LinePosition(batch.files[a]) < LinePosition(batch.files[b])

\* C9 witness: a report in which the first listed file failed, the second
\* succeeded, and both have their line
C9_Witness ==
    /\ Reported
    /\ Len(batch.files) = 2
    /\ LinePosition(batch.files[1]) # 0
    /\ LinePosition(batch.files[2]) # 0
    /\ LineMark(batch.files[1]) = "fail"
    /\ LineMark(batch.files[2]) = "ok"

\* file has an outcome among the results or the errors collected so far
Recorded(file) ==
    \/ \E k \in 1..Len(batch.results) : batch.results[k].file = file
    \/ \E k \in 1..Len(batch.errors) : batch.errors[k].file = file

\* C18: an entry of the listing that is not a regular file is never handed to
\* convertDocument and has no success line and no failure line, whether or
\* not its name matches file_pattern.
C18_OnlyRegularFiles ==
    \A k \in 1..Len(batch.files) :
        ListedEntry(k).kind # "file" =>
            /\ ~Processed(k)
            /\ ~Recorded(batch.files[k])
            /\ Reported => LinePosition(batch.files[k]) = 0

\* C18 witness: a report over a directory with a subdirectory whose name
\* matches the file_pattern and a file that was converted
C18_Witness ==
    /\ Reported
    /\ batch.file_pattern # NoPattern
    /\ response.succeeded = 1
    /\ \E k \in 1..Len(batch.files) :
          /\ ListedEntry(k).kind = "dir"
          /\ PatternFilter(batch.file_pattern, batch.files[k]) = "match"

\* what a successful conversion of document to outputFormat writes
ConversionOf(document, outputFormat) ==
    IF outputFormat = "pdf"
    THEN <<PdfMagic>> \o (IF document.format = "html" THEN document.content
                          ELSE convertToHTML(document.content, document.format))
    ELSE ConvertedContent(document, outputFormat)

\* C21 (as claimed): after the batch has returned its report, the destination
\* of every file reported as converted holds the conversion of that file.
C21_OutputsNotOverwritten ==
    Reported =>
        \A a \in 1..Len(batch.attempts) :
            batch.attempts[a].ok =>
                EntryOf(fsys, batch.attempts[a].path).content =
                    ConversionOf(readDocument(fsys, config,
                                     join(batch.input_directory, batch.attempts[a].file)),
                                 batch.output_format)

(***************************************************************************)
(* Claims about batch_convert in place, under SpecInPlace                  *)
(***************************************************************************)
\* the names the input directory holds now
NamesNow == readdir(fsys, batch.input_directory).files

C20_SingleWorker ==
    /\ Cardinality(batch.inflight) <= 1
    /\ Len(batch.attempts) = Len(batch.results) + Len(batch.errors)
    /\ \A file \in batch.inflight :
          /\ batch.i <= Len(batch.files)
          /\ file = batch.files[batch.i]
          /\ ~Recorded(file)
    /\ \A k \in 1..Len(batch.files) :
          /\ k < batch.i => (Processed(k) <=> Recorded(batch.files[k]))
          /\ k < batch.i => batch.files[k] \notin batch.inflight
          /\ k > batch.i => ~Processed(k) /\ ~Recorded(batch.files[k])
                               /\ batch.files[k] \notin batch.inflight

\* C20 witness: the second file is being converted after the outcome of the
\* first was recorded
C20_Witness ==
    /\ pc = "batch"
    /\ Len(batch.files) >= 2
    /\ batch.i = 2
    /\ batch.inflight = {batch.files[2]}
    /\ Recorded(batch.files[1])

(***************************************************************************)
(* Claims about readDocument and convertDocument, under Spec               *)
(***************************************************************************)
Codecs == {"readFile", "pdfParse", "mammoth", "JSDOM"}

\* a call of readDocument was made, directly or by convertDocument
ReadCalled == last.op \in {"readDocument", "convertDocument"}

\* the size of the file the last call was given, when it could be stat-ed
InputStat == stat(last.before, last.input)

\* the entries of every directory that existed before the last call are as
\* they were: no file was created or modified
NoFileWritten ==
    /\ \A d \in DOMAIN last.before : d \in DOMAIN fsys /\ fsys[d] = last.before[d]
    /\ \A d \in DOMAIN fsys : d \notin DOMAIN last.before => fsys[d] = <<>>

\* C3: a file larger than max_file_size is rejected with the size-limit error
\* whatever its format and no codec is called; a file of exactly max_file_size
\* is not rejected by the size check.
C3_SizeLimitBeforeCodecs ==
    (ReadCalled /\ InputStat.ok) =>
        /\ InputStat.size > config.max_file_size =>
              /\ ~last.ok
              /\ last.error = "File size exceeds maximum limit"
              /\ \A k \in 1..Len(last.calls) : last.calls[k] \notin Codecs
        /\ InputStat.size = config.max_file_size =>
              last.error # "File size exceeds maximum limit"

\* C3 witness: an oversized file of unknown format was read
C3_Witness ==
    /\ ReadCalled
    /\ InputStat.ok
    /\ InputStat.size > config.max_file_size
    /\ detectFormat(last.input) = "unknown"
    /\ last.error = "File size exceeds maximum limit"

\* the last call was convertDocument with this output format
ConvertCalled(outputFormat) ==
    last.op = "convertDocument" /\ last.output_format = outputFormat

\* the read of the last call succeeded
ReadSucceeded == last.format # "none"

UnsupportedOutputRequested ==
    /\ last.op = "convertDocument"
    /\ last.output_format \notin config.supported_formats.output

\* C5 (as claimed): with an output format outside supported_formats.output,
\* convertDocument fails with the unsupported-output-format error for every
\* input path, and creates no directory and writes no file.
C5_UnsupportedOutputAlways ==
    UnsupportedOutputRequested =>
        /\ ~last.ok
        /\ last.error = "Unsupported output format"
        /\ fsys = last.before

\* C5 (amended): with an output format outside supported_formats.output,
\* convertDocument fails for every input path, creates no directory and
\* writes no file; the error is the unsupported-output-format error exactly
\* when the input was read, and the read's error otherwise.
C5_UnsupportedOutputAfterRead ==
    UnsupportedOutputRequested =>
        /\ ~last.ok
        /\ fsys = last.before
        /\ last.error = IF ReadSucceeded THEN "Unsupported output format"
                        ELSE readDocument(last.before, config, last.input).error

\* C5 witness: a readable document was asked in a format that is not configured
C5_Witness ==
    /\ UnsupportedOutputRequested
    /\ ReadSucceeded
    /\ last.error = "Unsupported output format"

\* C6 (as claimed): a Document that readDocument returns has a format in
\* supported_formats.input, never "unknown", and a path of unknown format
\* fails with the unsupported-format error.
C6_FormatIsSupportedInput ==
    ReadCalled =>
        /\ ReadSucceeded =>
              /\ last.format \in config.supported_formats.input
              /\ last.format # "unknown"
        /\ (/\ detectFormat(last.input) = "unknown"
            /\ InputStat.ok
            /\ InputStat.size <= config.max_file_size)
           => last.error = "Unsupported file format"

\* the number of tokens t in content
RECURSIVE Count(_, _)
Count(content, t) ==
    IF content = <<>> THEN 0
    ELSE (IF Head(content) = t THEN 1 ELSE 0) + Count(Tail(content), t)

\* the Markdown files of a file system
MarkdownFiles(fs) ==
    { e \in UNION { { fs[d][k] : k \in 1..Len(fs[d]) } : d \in DOMAIN fs } :
        e.kind = "file" /\ detectFormat(e.name) = "md" }

\* C7 (as claimed): when an HTML file that is the html conversion of a
\* Markdown file is converted to md, the result has every "#", "##" and "**"
\* marker of that Markdown file.
C7_RoundTripKeepsMarkers ==
    (/\ ConvertCalled("md")
     /\ last.ok
     /\ detectFormat(last.input) = "html")
    => \A e \in MarkdownFiles(last.before) :
          readFile(last.before, last.input).data = convertToHTML(e.content, "md")
          => \A t \in {"#", "##", "**"} :
                Count(EntryOf(fsys, last.path).content, t) >= Count(e.content, t)

(***************************************************************************)
(* Claims about detectFormat, under SpecDetect                             *)
(***************************************************************************)
\* the extensions of each format
ExtensionsOf(f) ==
    CASE f = "pdf" -> { <<".","p","d","f">> }
      [] f = "docx" -> { <<".","d","o","c","x">> }
      [] f = "html" -> { <<".","h","t","m","l">>, <<".","h","t","m">> }
      [] f = "md" -> { <<".","m","d">>, <<".","m","a","r","k","d","o","w","n">> }
      [] f = "txt" -> { <<".","t","x","t">> }

\* the segment is a non-empty name followed by the extension, in any case
HasExtension(segment, ext) ==
    /\ Len(segment) > Len(ext)
    /\ toLowerCase(SubSeq(segment, Len(segment) - Len(ext) + 1, Len(segment))) = ext

\* the formats whose extension the path has
FormatsByExtension(p) ==
    { f \in Formats : \E ext \in ExtensionsOf(f) : HasExtension(LastSegment(p), ext) }

BaseOf(segment) ==
    IF \E k \in 2..Len(segment) : segment[k] = "."
    THEN SubSeq(segment, 1,
                (CHOOSE k \in 2..Len(segment) :
                    segment[k] = "." /\ \A j \in (k+1)..Len(segment) : segment[j] # ".") - 1)
    ELSE segment

\* the base name of the source of a conversion
SourceBaseName(p) == BaseOf(LastSegment(p))

\* the destination of the last convertDocument call
Destination ==
    IF last.output_path # NoPath THEN last.output_path
    ELSE join(config.output_directory,
              SourceBaseName(last.input) \o <<".">> \o FormatChars[last.output_format])

\* C12: in a convertDocument call fs.writeFile is the last call made, after the
\* source was read and, for pdf, after the rendering; when the call fails, no
\* file was created or modified, the destination included.
C12_WriteOnlyAfterContent ==
    last.op = "convertDocument" =>
        /\ \A k \in 1..Len(last.calls) :
              last.calls[k] = "writeFile" =>
                  /\ k = Len(last.calls)
                  /\ ReadSucceeded
                  /\ \E j \in 1..(k-1) : last.calls[j] = "readFile"
                  /\ last.output_format = "pdf" => last.calls[k-1] = "generatePdf"
        /\ ~last.ok =>
              /\ NoFileWritten
              /\ EntryOf(fsys, Destination) = EntryOf(last.before, Destination)

\* C12 witness: the rendering failed in a conversion whose destination file
\* existed already
C12_Witness ==
    /\ ConvertCalled("pdf")
    /\ ReadSucceeded
    /\ last.error = "generatePdf failed"
    /\ EntryOf(last.before, Destination).kind = "file"
    /\ EntryOf(fsys, Destination) = EntryOf(last.before, Destination)

\* the last call converted a Markdown source to md
MarkdownToMarkdown ==
    /\ ConvertCalled("md")
    /\ last.ok
    /\ detectFormat(last.input) = "md"

\* the bytes of the source file and of the output file of the last call
SourceBytes == EntryOf(last.before, last.input).content
OutputBytes == EntryOf(fsys, last.path).content

\* the bytes are well-formed UTF-8
WellFormedUtf8(data) == \A k \in 1..Len(data) : data[k] # InvalidByte

\* C13 (as claimed): a Markdown source converted to md gives an output file
\* byte-identical to the source file.
C13_MarkdownIdentity ==
    MarkdownToMarkdown => OutputBytes = SourceBytes

\* C13 (amended): a Markdown source converted to md gives an output file that
\* is the UTF-8 encoding of the source decoded as UTF-8: byte-identical to the
\* source when the source is well-formed UTF-8, and with U+FFFD in place of
\* every ill-formed byte otherwise; nothing else is changed.
C13_MarkdownIdentityOnUtf8 ==
    MarkdownToMarkdown =>
        /\ Len(OutputBytes) = Len(SourceBytes)
        /\ \A k \in 1..Len(SourceBytes) :
              OutputBytes[k] = IF SourceBytes[k] = InvalidByte THEN ReplacementChar
                               ELSE SourceBytes[k]
        /\ WellFormedUtf8(SourceBytes) => OutputBytes = SourceBytes

\* C13 witness: a Markdown source with headings and emphasis was converted to
\* md and the output is the source
C13_Witness ==
    /\ MarkdownToMarkdown
    /\ WellFormedUtf8(SourceBytes)
    /\ \E k \in 1..Len(SourceBytes) : SourceBytes[k] = "**"
    /\ OutputBytes = SourceBytes

\* C15 (as claimed): an HTML source converted to html gives an output file whose
\* content is the markup of the source file.
C15_HtmlPassThrough ==
    (/\ ConvertCalled("html")
     /\ last.ok
     /\ detectFormat(last.input) = "html")
    => OutputBytes = SourceBytes

\* content is open, then the tokens of text, then close
Wraps(content, open, text, close) ==
    /\ Len(content) = Len(open) + Len(text) + Len(close)
    /\ SubSeq(content, 1, Len(open)) = open
    /\ SubSeq(content, Len(open) + 1, Len(open) + Len(text)) = text
    /\ SubSeq(content, Len(open) + Len(text) + 1, Len(content)) = close

\* text with every line break turned into a line-break tag
WithLineBreakTags(text, out) ==
    /\ Len(out) = Len(text)
    /\ \A k \in 1..Len(text) : out[k] = IF text[k] = LF THEN "<br>" ELSE text[k]

RenderedHtml(bytes) == IF bytes # <<>> /\ Head(bytes) = PdfMagic THEN Tail(bytes) ELSE <<"none">>

ReadingCalls == {"stat", "readFile", "pdfParse", "mammoth", "JSDOM"}

\* C19: a get_document_info call, and a convertDocument call that ends in its
\* readDocument, make only reading calls and leave every file, every
\* directory and the configuration as they were, whether they succeed or fail.
C19_ReadingHasNoEffect ==
    [][(/\ nops' # nops
        /\ \/ last'.op = "readDocument"
           \/ last'.op = "convertDocument" /\ last'.format = "none")
       => /\ fsys' = fsys
          /\ config' = config
          /\ \A k \in 1..Len(last'.calls) : last'.calls[k] \in ReadingCalls]_vars

\* C19 witness: get_document_info returned the information of a document
\* while converted documents were in the output directory
C19_Witness ==
    /\ last.op = "readDocument"
    /\ last.ok
    /\ response.tool = "get_document_info"
    /\ response.kind = "ok"
    /\ config.output_directory \in DOMAIN fsys
    /\ fsys = last.before

(***************************************************************************)
(* Claims about the three tools, under SpecTools                           *)
(***************************************************************************)
\* C11: the path a successful convertDocument returns is
\* output_directory/<source base name>.<outputFormat> when no output path was
\* given and the given output path otherwise, and the output file is there;
\* batch_convert gives no output path, so every output it produced is in
\* output_directory.
C11_OutputInsideOutputDirectory ==
    /\ (last.op = "convertDocument" /\ last.ok) =>
          /\ last.output_path = NoPath =>
                /\ dirname(last.path) = config.output_directory
                /\ LastSegment(last.path) =
                      SourceBaseName(last.input) \o <<".">> \o FormatChars[last.output_format]
          /\ last.output_path # NoPath => last.path = last.output_path
          /\ EntryOf(fsys, last.path).kind = "file"
    /\ \A a \in 1..Len(batch.attempts) :
          batch.attempts[a].ok =>
              /\ dirname(batch.attempts[a].path) = config.output_directory
              /\ EntryOf(fsys, batch.attempts[a].path).kind = "file"

\* C11 witness: batch_convert converted a file and reported it
C11_Witness ==
    /\ pc = "done"
    /\ response.kind = "report"
    /\ response.succeeded = 1
    /\ last.ok
    /\ dirname(last.path) = config.output_directory

\* a tool call was served and its handler has returned
HandlerReturned == nops > 0 /\ pc # "batch"

\* what goes wrong in batch_convert outside the conversions: the listing, the
\* stat of the entry the loop is at, or the file_pattern of a regular file
BatchFailure ==
    \/ ~readdir(fsys, batch.input_directory).ok
    \/ /\ batch.i >= 1
       /\ batch.i <= Len(batch.files)
       /\ \/ ListedEntry(batch.i).kind \in {"none", "link"}
          \/ /\ ListedEntry(batch.i).kind = "file"
             /\ batch.file_pattern # NoPattern
             /\ ~RegExpCompiles(ReplaceFirstStar(batch.file_pattern))

\* C14: a handler that has returned has returned a text result: for
\* convert_document and get_document_info the success payload when the
\* underlying call succeeded and its error message otherwise; for
\* batch_convert the report, or the failure message when the listing, a stat or
\* the file_pattern failed.
C14_FailuresReturnedAsText ==
    HandlerReturned =>
        /\ response.tool \in {"convert_document", "get_document_info", "batch_convert"}
        /\ response.kind \in {"ok", "error", "report", "failed"}
        /\ response.tool = "convert_document" =>
              /\ last.op = "convertDocument"
              /\ response.kind = IF last.ok THEN "ok" ELSE "error"
              /\ last.ok => response.path = last.path
              /\ ~last.ok => response.error = last.error /\ response.error # ""
        /\ response.tool = "get_document_info" =>
              /\ last.op = "readDocument"
              /\ response.kind = IF last.ok THEN "ok" ELSE "error"
              /\ last.ok => response.info # <<>>
              /\ ~last.ok => response.error = last.error /\ response.error # ""
        /\ response.tool = "batch_convert" =>
              /\ response.kind = IF BatchFailure THEN "failed" ELSE "report"
              /\ BatchFailure => response.error # ""

\* C14 witness: batch_convert returned its failure message after the stat of
\* a listed entry failed
C14_Witness ==
    /\ HandlerReturned
    /\ response.tool = "batch_convert"
    /\ response.kind = "failed"
    /\ batch.i >= 1
    /\ response.error = "ENOENT"

(***************************************************************************)
(* Claims about the output directory, under SpecConvert                    *)
(***************************************************************************)
\* the calls that convert or write, made after the document was read
ProducingCalls == {"generatePdf", "writeFile"}

\* the last convertDocument call read its document and was asked for a format
\* the configuration supports
ReadAndSupported ==
    /\ last.op = "convertDocument"
    /\ readDocument(last.before, config, last.input).ok
    /\ last.output_format \in config.supported_formats.output

\* C23: a convertDocument call whose read succeeded and whose output format is
\* supported calls ensureDir on config.output_directory before it renders or
\* writes anything; unless that call itself failed, the directory exists when
\* convertDocument is over, with an output path given or not, inside the
\* directory or not, and whether the conversion then succeeds or fails.  No
\* other directory is created: the directory of a given output path is not.
C23_OutputDirectoryEnsured ==
    ReadAndSupported =>
        /\ \E k \in 1..Len(last.calls) :
              /\ last.calls[k] = "ensureDir"
              /\ \A j \in 1..(k - 1) : last.calls[j] \notin ProducingCalls
        /\ last.error # "EACCES" => config.output_directory \in DOMAIN fsys
        /\ last.error = "EACCES" =>
              /\ fsys = last.before
              /\ \A k \in 1..Len(last.calls) : last.calls[k] \notin ProducingCalls
        /\ DOMAIN fsys \subseteq DOMAIN last.before \cup {config.output_directory}
        /\ (last.output_path # NoPath /\ dirname(last.output_path) \notin DOMAIN last.before)
              => ~last.ok /\ dirname(last.output_path) \notin DOMAIN fsys

\* C23 witness: a conversion to docx with an output path in a directory that
\* does not exist failed as not implemented, and created the output directory
C23_Witness ==
    /\ ReadAndSupported
    /\ last.output_format = "docx"
    /\ last.output_path = NewPath
    /\ last.error = "Conversion not implemented"
    /\ config.output_directory \notin DOMAIN last.before
    /\ config.output_directory \in DOMAIN fsys
    /\ NewDir \notin DOMAIN fsys

(***************************************************************************)
(* Claims about load, under SpecLoad                                       *)
(***************************************************************************)
\* load has returned or thrown
LoadSettled == cli.call \in LoadCalls /\ cli.phase \in {"returned", "thrown"}

\* C24: whenever load has settled, by returning or by throwing, the interval
\* it started has been cleared.
C24_TimerStoppedWhenSettled == LoadSettled => ~cli.timer

====
